---- MODULE Spec2Model ----
(***************************************************************************)
(* NDJSON -> flat CSV conversion of "MIMIC_import/import gzip_optimized.py" *)
(* (flatten_dict_iterative, transform_col_name,                            *)
(* dedupe_column_names_optimized, collect_all_columns,                     *)
(* ndjson_to_csv_flat_optimized and the __main__ loop over the files).     *)
(*                                                                         *)
(* Strings of the program (flattened paths, column names) are sequences of *)
(* one-character strings, so that substring replacement, the regular       *)
(* expression _(\d+) and lexicographic sorting are computed, not assumed.  *)
(* JSON values are tagged records [kind, val].                             *)
(***************************************************************************)
EXTENDS Integers, Sequences, FiniteSets, TLC

\* ------------------------------------------------------------------ bounds

\* lines of all the input files of one run, together
MaxLines == 3
\* input files found in the input folder
MaxFiles == 2
\* largest chunk_size a run is configured with
MaxChunk == 2
\* longest sequence of names handed to the deduplicator when it is called alone
MaxNames == 3

\* sample_size the driver passes to collect_all_columns
SampleSize == 1000

\* ------------------------------------------------------------ characters

Ascii ==
  << "0", "1", "2", "3", "4", "5", "6", "7", "8", "9",
     "A", "B", "C", "D", "E", "F", "G", "H", "I", "J", "K", "L", "M",
     "N", "O", "P", "Q", "R", "S", "T", "U", "V", "W", "X", "Y", "Z",
     "_",
     "a", "b", "c", "d", "e", "f", "g", "h", "i", "j", "k", "l", "m",
     "n", "o", "p", "q", "r", "s", "t", "u", "v", "w", "x", "y", "z" >>

\* code point order of a character (Python compares str by code point)
Ord(c) == CHOOSE i \in 1..Len(Ascii) : Ascii[i] = c

Digits == <<"0", "1", "2", "3", "4", "5", "6", "7", "8", "9">>

IsDigit(c) == \E i \in 1..10 : Digits[i] = c

\* str(i) for i >= 0
RECURSIVE Str(_)
Str(i) == IF i < 10 THEN <<Digits[i + 1]>>
          ELSE Str(i \div 10) \o <<Digits[(i % 10) + 1]>>

\* s < t for Python strings
RECURSIVE StrLess(_, _)
StrLess(s, t) ==
  IF t = <<>> THEN FALSE
  ELSE IF s = <<>> THEN TRUE
  ELSE IF Head(s) = Head(t) THEN StrLess(Tail(s), Tail(t))
  ELSE Ord(Head(s)) < Ord(Head(t))

\* sorted(S) for a set of strings
RECURSIVE Sorted(_)
Sorted(S) ==
  IF S = {} THEN <<>>
  ELSE LET m == CHOOSE x \in S : \A y \in S \ {x} : StrLess(x, y)
       IN  <<m>> \o Sorted(S \ {m})

StartsWith(s, p) == Len(s) >= Len(p) /\ SubSeq(s, 1, Len(p)) = p

\* s.replace(old, new): leftmost, non-overlapping occurrences
RECURSIVE Replace(_, _, _)
Replace(s, old, new) ==
  IF s = <<>> THEN <<>>
  ELSE IF StartsWith(s, old)
       THEN new \o Replace(SubSeq(s, Len(old) + 1, Len(s)), old, new)
       ELSE <<Head(s)>> \o Replace(Tail(s), old, new)

\* ------------------------------------------------------------ JSON values

JStr(v) == [kind |-> "str", val |-> v]
JNull == [kind |-> "null", val |-> "null"]
JList(items) == [kind |-> "list", val |-> items]
\* items: sequence of <<key, value>> in document order (dict keeps insertion order)
JDict(items) == [kind |-> "dict", val |-> items]

IsContainer(v) == v.kind \in {"dict", "list"}

\* ------------------------------------------------- Python dict as a value
\* a dict is a sequence of <<key, value>> with distinct keys, insertion ordered

DictKeys(d) == {d[i][1] : i \in 1..Len(d)}

DictGet(d, k) == LET i == CHOOSE j \in 1..Len(d) : d[j][1] = k IN d[i][2]

\* d[k] = v
DictSet(d, k, v) ==
  IF k \in DictKeys(d)
  THEN [i \in 1..Len(d) |-> IF d[i][1] = k THEN <<k, v>> ELSE d[i]]
  ELSE Append(d, <<k, v>>)

\* ---------------------------------------------------------------- flatten

Sep == <<"_">>

\* Children with the list elements numbered from 0 (enumerate without start=1)
ChildrenFromZero(current_obj, current_key) ==
  IF current_obj.kind = "dict"
  THEN [i \in 1..Len(current_obj.val) |->
          << IF current_key # <<>>
             THEN current_key \o Sep \o current_obj.val[i][1]
             ELSE current_obj.val[i][1],
             current_obj.val[i][2] >>]
  ELSE IF current_obj.kind = "list"
  THEN [i \in 1..Len(current_obj.val) |->
          << IF current_key # <<>>
             THEN current_key \o Sep \o Str(i - 1)
             ELSE Str(i - 1),
             current_obj.val[i] >>]
  ELSE <<>>

\* the (new_key, value) pairs one popped container yields, in iteration order
Children(current_obj, current_key) ==
  IF current_obj.kind = "dict"
  THEN [i \in 1..Len(current_obj.val) |->
          << IF current_key # <<>>
             THEN current_key \o Sep \o current_obj.val[i][1]
             ELSE current_obj.val[i][1],
             current_obj.val[i][2] >>]
  ELSE IF current_obj.kind = "list"
  THEN [i \in 1..Len(current_obj.val) |->
          << IF current_key # <<>>
             THEN current_key \o Sep \o Str(i)
             ELSE Str(i),
             current_obj.val[i] >>]
  ELSE <<>>

\* the body of the for loops: containers are queued, leaves are stored
RECURSIVE Scatter(_, _, _)
Scatter(kids, stack, result) ==
  IF kids = <<>> THEN <<stack, result>>
  ELSE LET new_key == Head(kids)[1]
           value == Head(kids)[2]
       IN  IF IsContainer(value)
           THEN Scatter(Tail(kids), Append(stack, <<value, new_key>>), result)
           ELSE Scatter(Tail(kids), stack, DictSet(result, new_key, value))

\* while stack: popleft
RECURSIVE FlattenLoop(_, _)
FlattenLoop(stack, result) ==
  IF stack = <<>> THEN result
  ELSE LET step == Scatter(Children(Head(stack)[1], Head(stack)[2]),
                           Tail(stack), result)
       IN  FlattenLoop(step[1], step[2])

flatten_dict_iterative(obj, parent_key) ==
  FlattenLoop(<< <<obj, parent_key>> >>, <<>>)

\* ---------------------------------------- flatten_dict, the recursive original

\* items.update(other)
RECURSIVE DictUpdate(_, _)
DictUpdate(items, other) ==
  IF other = <<>> THEN items
  ELSE DictUpdate(DictSet(items, Head(other)[1], Head(other)[2]), Tail(other))

RECURSIVE flatten_dict(_, _)
RECURSIVE FlattenKids(_, _)

\* the body of the for loops: a container is flattened at once and merged in
FlattenKids(kids, items) ==
  IF kids = <<>> THEN items
  ELSE LET new_key == Head(kids)[1]
           v == Head(kids)[2]
       IN  IF IsContainer(v)
           THEN FlattenKids(Tail(kids), DictUpdate(items, flatten_dict(v, new_key)))
           ELSE FlattenKids(Tail(kids), DictSet(items, new_key, v))

flatten_dict(d, parent_key) == FlattenKids(Children(d, parent_key), <<>>)

\* ------------------------------------------------------ transform_col_name

\* length of the run of digits at the head of s
RECURSIVE DigitRun(_)
DigitRun(s) ==
  IF s # <<>> /\ IsDigit(Head(s)) THEN 1 + DigitRun(Tail(s)) ELSE 0

\* re.compile(r'_(\d+)').sub(r'\1', s)
RECURSIVE SubUnderscoreNumber(_)
SubUnderscoreNumber(s) ==
  IF s = <<>> THEN <<>>
  ELSE IF Head(s) = "_" /\ DigitRun(Tail(s)) > 0
       THEN LET k == DigitRun(Tail(s))
            IN  SubSeq(s, 2, 1 + k) \o SubUnderscoreNumber(SubSeq(s, 2 + k, Len(s)))
       ELSE <<Head(s)>> \o SubUnderscoreNumber(Tail(s))

W_extension == <<"_", "e", "x", "t", "e", "n", "s", "i", "o", "n", "_">>
W_ext == <<"_", "e", "x", "t", "_">>
W_communication ==
  <<"_", "c", "o", "m", "m", "u", "n", "i", "c", "a", "t", "i", "o", "n", "_">>
W_comm == <<"_", "c", "o", "m", "m", "_">>

\* the value computed on a cache miss
TransformMiss(name) ==
  SubUnderscoreNumber(
    Replace(Replace(name, W_extension, W_ext), W_communication, W_comm))

\* cache: the dict _column_transform_cache; returns <<result, cache after the call>>
transform_col_name(name, cache) ==
  IF name \in DictKeys(cache)
  THEN <<DictGet(cache, name), cache>>
  ELSE <<TransformMiss(name), DictSet(cache, name, TransformMiss(name))>>

\* [transform_col_name(c) for c in names], threading the cache
RECURSIVE TransformAll(_, _)
TransformAll(names, cache) ==
  IF names = <<>> THEN <<<<>>, cache>>
  ELSE LET one == transform_col_name(Head(names), cache)
           rest == TransformAll(Tail(names), one[2])
       IN  <<<<one[1]>> \o rest[1], rest[2]>>

\* ------------------------------------------- dedupe_column_names_optimized

\* counts[name] of the defaultdict(int): a missing key reads as 0
CountOf(counts, name) == IF name \in DictKeys(counts) THEN DictGet(counts, name) ELSE 0

\* Suffix that counts the earlier occurrences instead of the occurrence itself
SuffixEarlier(n) == <<"_", "_">> \o Str(n - 1)

\* "__N"
Suffix(n) == <<"_", "_">> \o Str(n)

\* for name in names: ...
RECURSIVE DedupeLoop(_, _, _)
DedupeLoop(names, counts, result) ==
  IF names = <<>> THEN result
  ELSE LET name == Head(names)
           c == CountOf(counts, name)
       IN  DedupeLoop(Tail(names), DictSet(counts, name, c + 1),
                      Append(result, IF c = 0 THEN name ELSE name \o Suffix(c + 1)))

dedupe_column_names_optimized(names) == DedupeLoop(names, <<>>, <<>>)

\* ------------------------------------------------------------ input lines

\* a line that json.loads rejects
BadLine == [kind |-> "bad", val |-> "not json"]

IsValidJson(line) == line.kind # "bad"

\* {"a": ["v"], "aB": "w"}: flattens to a_1, aB
RecA == JDict(<< <<<<"a">>, JList(<<JStr("v")>>)>>, <<<<"a", "B">>, JStr("w")>> >>)

\* {"a1": "x", "c": "y"}: a1 is also what a_1 is renamed to
RecB == JDict(<< <<<<"a", "1">>, JStr("x")>>, <<<<"c">>, JStr("y")>> >>)

LinePool == {RecA, RecB, BadLine}

\* the lines read_ndjson_lines yields for one file: stripped, non-empty
LineSeqs(n) == UNION {[1..k -> LinePool] : k \in 0..n}

\* f files holding at most t lines together
RECURSIVE Folders(_, _)
Folders(f, t) ==
  IF f = 0 THEN {<<>>}
  ELSE UNION {{<<x>> \o r : r \in Folders(f - 1, t - Len(x))} : x \in LineSeqs(t)}

\* names glob finds: *.ndjson and *.ndjson.gz
InputNames ==
  << <<"X", ".", "n", "d", "j", "s", "o", "n">>,
     <<"X", ".", "n", "d", "j", "s", "o", "n", ".", "g", "z">>,
     <<"Y", ".", "n", "d", "j", "s", "o", "n">>,
     <<"Z", ".", "n", "d", "j", "s", "o", "n">> >>

FileName(i) == InputNames[((i - 1) % Len(InputNames)) + 1]

\* ------------------------------------------------------------ file names

\* os.path.splitext(s)[0] for a name without directory part
Splitext(s) ==
  LET dots == {i \in 1..Len(s) : s[i] = "."}
  IN  IF dots = {} THEN s
      ELSE LET i == CHOOSE d \in dots : \A e \in dots : e <= d
           IN  IF \E j \in 1..(i - 1) : s[j] # "." THEN SubSeq(s, 1, i - 1) ELSE s

\* f"{n:02d}"
Fmt02(n) == IF n < 10 THEN <<"0">> \o Str(n) ELSE Str(n)

Candidate(base, n) == base \o <<"_">> \o Fmt02(n) \o <<".", "c", "s", "v">>

\* FirstFree without the loop on os.path.exists
FirstFreeUnchecked(base, n, existing) == Candidate(base, n)

\* while os.path.exists(candidate): n += 1
RECURSIVE FirstFree(_, _, _)
FirstFree(base, n, existing) ==
  IF Candidate(base, n) \in existing THEN FirstFree(base, n + 1, existing)
  ELSE Candidate(base, n)

\* existing: the paths present in the output folder
get_unique_filename(base_name, existing) ==
  FirstFree(Splitext(Splitext(base_name)), 1, existing)

\* ---------------------------------------------------- collect_all_columns

\* the for loop over the lines the source yields; returns all_columns
RECURSIVE SampleLoop(_, _, _)
SampleLoop(lines, all_columns, processed) ==
  IF lines = <<>> \/ processed >= SampleSize THEN all_columns
  ELSE IF IsValidJson(Head(lines))
       THEN SampleLoop(Tail(lines),
                       all_columns \cup DictKeys(flatten_dict_iterative(Head(lines), <<>>)),
                       processed + 1)
       ELSE SampleLoop(Tail(lines), all_columns, processed)

\* lines: what the source yielded before it ended or raised (the error is swallowed);
\* returns <<column names, cache after the call>>
collect_all_columns(lines, cache) ==
  LET sorted_columns == Sorted(SampleLoop(lines, {}, 0))
      transformed == TransformAll(sorted_columns, cache)
  IN  <<dedupe_column_names_optimized(transformed[1]), transformed[2]>>

\* ------------------------------------------------------------- DataFrame

\* a cell no record supplied
NaN == [kind |-> "nan", val |-> ""]

\* columns of pd.DataFrame(records): the keys in first-seen order
RECURSIVE UnionKeys(_, _)
UnionKeys(records, cols) ==
  IF records = <<>> THEN cols
  ELSE LET r == Head(records)
           new == SelectSeq([i \in 1..Len(r) |-> r[i][1]],
                            LAMBDA k : \A j \in 1..Len(cols) : cols[j] # k)
       IN  UnionKeys(Tail(records), cols \o new)

\* pd.DataFrame(batch_records): one row per record, in order
DataFrame(records) ==
  LET cols == UnionKeys(records, <<>>)
  IN  [columns |-> cols,
       data |-> [r \in 1..Len(records) |->
                   [c \in 1..Len(cols) |->
                      IF cols[c] \in DictKeys(records[r])
                      THEN DictGet(records[r], cols[c]) ELSE NaN]]]

HasColumn(df, col) == \E j \in 1..Len(df.columns) : df.columns[j] = col

\* for col in column_order: if col not in df.columns: df[col] = None
RECURSIVE AddMissing(_, _)
AddMissing(df, column_order) ==
  IF column_order = <<>> THEN df
  ELSE IF HasColumn(df, Head(column_order))
       THEN AddMissing(df, Tail(column_order))
       ELSE AddMissing([columns |-> Append(df.columns, Head(column_order)),
                        data |-> [r \in 1..Len(df.data) |-> Append(df.data[r], JNull)]],
                       Tail(column_order))

\* the reindex left out: the frame keeps the columns it has
ReindexSkipped(df, column_order) == df

\* df.reindex(columns=column_order)
Reindex(df, column_order) ==
  [columns |-> column_order,
   data |-> [r \in 1..Len(df.data) |->
               [c \in 1..Len(column_order) |->
                  IF HasColumn(df, column_order[c])
                  THEN df.data[r][CHOOSE j \in 1..Len(df.columns) :
                                    df.columns[j] = column_order[c]]
                  ELSE NaN]]]

\* the frame a flush writes
Reconcile(batch_records, column_order) ==
  Reindex(AddMissing(DataFrame(batch_records), column_order), column_order)

\* a field of the CSV text: None and NaN are written as the empty field
CsvField(cell) == IF cell.kind \in {"nan", "null"} THEN "" ELSE cell.val

HeaderLine(df) == [kind |-> "header", val |-> df.columns]

RowLines(df) ==
  [r \in 1..Len(df.data) |->
     [kind |-> "row", val |-> [c \in 1..Len(df.data[r]) |-> CsvField(df.data[r][c])]]]

\* to_csv that opens the file with mode 'w' whatever mode says
to_csv_truncating(fs0, df, path, mode, header) ==
  LET text == (IF header THEN <<HeaderLine(df)>> ELSE <<>>) \o RowLines(df)
  IN  [p \in DOMAIN fs0 \cup {path} |-> IF p = path THEN text ELSE fs0[p]]

\* df.to_csv(path, index=False, mode=mode, header=header) on the folder fs
to_csv(fs0, df, path, mode, header) ==
  LET old == IF mode = "a" /\ path \in DOMAIN fs0 THEN fs0[path] ELSE <<>>
      text == old \o (IF header THEN <<HeaderLine(df)>> ELSE <<>>) \o RowLines(df)
  IN  [p \in DOMAIN fs0 \cup {path} |-> IF p = path THEN text ELSE fs0[p]]

\* ------------------------------------------------------------------ state

VARIABLES
  files,                   \* the input files glob found: sequence of [name, lines]
  chunk_size,              \* rows per batch
  fs,                      \* the output folder: path -> lines of the CSV text
  f_idx,                   \* the file the loop "for f in files" is at
  pc,                      \* "main", "schema", "write", "exit", or "pure"
  output_file,             \* locals of ndjson_to_csv_flat_optimized
  column_order,
  batch_records,
  processed_lines,
  first_chunk,
  pos,                     \* lines the write pass has taken from the source
  printed,                 \* what the run printed: sequence of [file, kind, n]
  column_transform_cache,  \* the module-level dict _column_transform_cache
  call,                    \* one call of a pure function: [fn, arg, done, ret]
  workers                  \* parallel conversions: worker -> locals of its call

vars == <<files, chunk_size, fs, f_idx, pc, output_file, column_order, batch_records,
          processed_lines, first_chunk, pos, printed, column_transform_cache, call,
          workers>>

NoCall == [fn |-> "none", arg |-> <<>>, done |-> FALSE, ret |-> <<>>]

NoPath == <<>>

Lines(i) == files[i].lines

Msg(kind, n) == [file |-> f_idx, kind |-> kind, n |-> n]

Init ==
  /\ \E f \in 0..MaxFiles : \E folder \in Folders(f, MaxLines) :
       files = [i \in 1..f |-> [name |-> FileName(i), lines |-> folder[i]]]
  /\ chunk_size \in 1..MaxChunk
  /\ fs = <<>>
  /\ f_idx = 1
  /\ pc = "main"
  /\ output_file = NoPath
  /\ column_order = <<>>
  /\ batch_records = <<>>
  /\ processed_lines = 0
  /\ first_chunk = TRUE
  /\ pos = 0
  /\ printed = <<>>
  /\ column_transform_cache = <<>>
  /\ call = NoCall
  /\ workers = <<>>

run_locals == <<output_file, column_order, batch_records, processed_lines, first_chunk, pos>>
config == <<files, chunk_size, call, workers>>

\* ------------------------------------------------------------ __main__ loop

\* for f in files: ndjson_to_csv_flat_optimized(f, output_folder), up to the
\* choice of the output name
StartFile ==
  /\ pc = "main"
  /\ f_idx <= Len(files)
  /\ output_file' = get_unique_filename(files[f_idx].name, DOMAIN fs)
  /\ pc' = "schema"
  /\ UNCHANGED <<config, fs, f_idx, column_order, batch_records, processed_lines,
                 first_chunk, pos, printed, column_transform_cache>>

\* the loop has run out of files
MainDone ==
  /\ pc = "main"
  /\ f_idx > Len(files)
  /\ pc' = "exit"
  /\ UNCHANGED <<config, fs, f_idx, run_locals, printed, column_transform_cache>>

\* ---------------------------------------------- ndjson_to_csv_flat_optimized

\* column_order = collect_all_columns(...); then the locals of the write pass
SchemaFrom(lines) ==
  LET got == collect_all_columns(lines, column_transform_cache)
  IN  /\ column_order' = got[1]
      /\ column_transform_cache' = got[2]
      /\ batch_records' = <<>>
      /\ processed_lines' = 0
      /\ first_chunk' = TRUE
      /\ pos' = 0
      /\ pc' = "write"
      /\ UNCHANGED <<config, fs, f_idx, output_file, printed>>

\* the sample pass reads the source to its end
CollectSchema == pc = "schema" /\ SchemaFrom(Lines(f_idx))

\* the source raises after k lines; collect_all_columns swallows the error
CollectSchemaSourceError ==
  /\ pc = "schema"
  /\ \E k \in 0..(Len(Lines(f_idx)) - 1) : SchemaFrom(SubSeq(Lines(f_idx), 1, k))

\* return from ndjson_to_csv_flat_optimized: the loop goes to the next file
Return == pc' = "main" /\ f_idx' = f_idx + 1

InWritePass == pc = "write"

AtLine == InWritePass /\ pos < Len(Lines(f_idx))

NextLine == Lines(f_idx)[pos + 1]

\* json.loads raises JSONDecodeError: the line is skipped
SkipInvalid ==
  /\ AtLine
  /\ ~IsValidJson(NextLine)
  /\ pos' = pos + 1
  /\ printed' = Append(printed, Msg("skip", processed_lines + 1))
  /\ UNCHANGED <<config, fs, f_idx, pc, output_file, column_order, batch_records,
                 processed_lines, first_chunk, column_transform_cache>>

Appended == Append(batch_records, flatten_dict_iterative(NextLine, <<>>))

\* a record joins the batch, which stays below chunk_size
AppendRecord ==
  /\ AtLine
  /\ IsValidJson(NextLine)
  /\ Len(Appended) < chunk_size
  /\ batch_records' = Appended
  /\ processed_lines' = processed_lines + 1
  /\ pos' = pos + 1
  /\ UNCHANGED <<config, fs, f_idx, pc, output_file, column_order, first_chunk,
                 printed, column_transform_cache>>

\* the sink after a flush of batch that succeeds; a to_csv that raises is taken
\* to leave the folder as it was
Flushed(batch) ==
  to_csv(fs, Reconcile(batch, column_order), output_file,
         IF first_chunk THEN "w" ELSE "a", first_chunk)

\* a record fills the batch and the batch is written
FlushBatch ==
  /\ AtLine
  /\ IsValidJson(NextLine)
  /\ Len(Appended) >= chunk_size
  /\ fs' = Flushed(Appended)
  /\ first_chunk' = FALSE
  /\ batch_records' = <<>>
  /\ processed_lines' = processed_lines + 1
  /\ pos' = pos + 1
  /\ printed' = Append(printed, Msg("progress", processed_lines + 1))
  /\ UNCHANGED <<config, f_idx, pc, output_file, column_order, column_transform_cache>>

\* a record fills the batch and to_csv raises: "except Exception" of the line
\* handler catches it and the loop continues with the batch as it is
FlushBatchFails ==
  /\ AtLine
  /\ IsValidJson(NextLine)
  /\ Len(Appended) >= chunk_size
  /\ batch_records' = Appended
  /\ processed_lines' = processed_lines + 1
  /\ pos' = pos + 1
  /\ printed' = Append(printed, Msg("line_error", processed_lines + 2))
  /\ UNCHANGED <<config, fs, f_idx, pc, output_file, column_order, first_chunk,
                 column_transform_cache>>

\* the source raises while the write pass reads it: the outer handler returns
SourceError ==
  /\ InWritePass
  /\ printed' = Append(printed, Msg("file_error", processed_lines))
  /\ Return
  /\ UNCHANGED <<config, fs, run_locals, column_transform_cache>>

AtEnd == InWritePass /\ pos = Len(Lines(f_idx))

\* end of the source with records left: they are written, the run finishes
FinalFlush ==
  /\ AtEnd
  /\ batch_records # <<>>
  /\ fs' = Flushed(batch_records)
  /\ printed' = Append(printed, Msg("finished", processed_lines))
  /\ Return
  /\ UNCHANGED <<config, run_locals, column_transform_cache>>

\* the last to_csv raises: the outer handler reports and returns
FinalFlushFails ==
  /\ AtEnd
  /\ batch_records # <<>>
  /\ printed' = Append(printed, Msg("file_error", processed_lines))
  /\ Return
  /\ UNCHANGED <<config, fs, run_locals, column_transform_cache>>

\* end of the source with an empty batch: nothing is written
FinishEmpty ==
  /\ AtEnd
  /\ batch_records = <<>>
  /\ printed' = Append(printed, Msg("finished", processed_lines))
  /\ Return
  /\ UNCHANGED <<config, fs, run_locals, column_transform_cache>>

Next ==
  \/ StartFile
  \/ MainDone
  \/ CollectSchema
  \/ CollectSchemaSourceError
  \/ SkipInvalid
  \/ AppendRecord
  \/ FlushBatch
  \/ FlushBatchFails
  \/ SourceError
  \/ FinalFlush
  \/ FinalFlushFails
  \/ FinishEmpty

Spec == Init /\ [][Next]_vars

\* ------------------------------------------------- pure functions, called alone

K_id == <<"i", "d">>
K_name == <<"n", "a", "m", "e">>
K_family == <<"f", "a", "m", "i", "l", "y">>
K_extension == <<"e", "x", "t", "e", "n", "s", "i", "o", "n">>
K_url == <<"u", "r", "l">>

\* {"id": "p1", "name": [{"family": "Doe"}], "extension": [{"url": "x"}]}
RecP1 ==
  JDict(<< <<K_id, JStr("p1")>>,
           <<K_name, JList(<<JDict(<< <<K_family, JStr("Doe")>> >>)>>)>>,
           <<K_extension, JList(<<JDict(<< <<K_url, JStr("x")>> >>)>>)>> >>)

\* {"a": {"b": "1"}, "a_b": "2"}
RecJoin ==
  JDict(<< <<<<"a">>, JDict(<< <<<<"b">>, JStr("1")>> >>)>>,
           <<<<"a", "_", "b">>, JStr("2")>> >>)

\* {"m": {"extension": [{"url": "x"}, {"url": "y"}]}, "k": [[], ["u", null]]}
RecDeep ==
  JDict(<< <<<<"m">>, JDict(<< <<K_extension,
                                 JList(<<JDict(<< <<K_url, JStr("x")>> >>),
                                         JDict(<< <<K_url, JStr("y")>> >>)>>)>> >>)>>,
           <<<<"k">>, JList(<<JList(<<>>), JList(<<JStr("u"), JNull>>)>>)>> >>)

JsonPool ==
  {RecP1, RecA, RecB, RecJoin, RecDeep, JStr("s"), JNull, JList(<<>>), JDict(<<>>),
   JList(<<JStr("u"), JStr("v")>>)}

ParentKeys == {<<>>, <<"p">>}

\* the paths the pool flattens to, and the names built on x and y
TransformInputs ==
  UNION {DictKeys(flatten_dict_iterative(v, k)) : v \in JsonPool, k \in ParentKeys}

NamePool == {<<"x">>, <<"y">>, <<"x", "_", "_", "2">>, <<"x", "_", "_", "3">>}

NameSeqs == UNION {[1..k -> NamePool] : k \in 0..MaxNames}

Calling(fn, arg) == [fn |-> fn, arg |-> arg, done |-> FALSE, ret |-> <<>>]

InitPure ==
  /\ \/ \E names \in NameSeqs : call = Calling("dedupe", names)
     \/ \E name \in TransformInputs : call = Calling("transform", name)
     \/ \E v \in JsonPool, k \in ParentKeys : call = Calling("flatten", <<v, k>>)
     \/ \E v \in JsonPool, k \in ParentKeys : call = Calling("flatten_dict", <<v, k>>)
  /\ column_transform_cache \in
       {<<>>} \cup {transform_col_name(n, <<>>)[2] : n \in TransformInputs}
  /\ files = <<>>
  /\ chunk_size = 1
  /\ fs = <<>>
  /\ f_idx = 1
  /\ pc = "pure"
  /\ output_file = NoPath
  /\ column_order = <<>>
  /\ batch_records = <<>>
  /\ processed_lines = 0
  /\ first_chunk = TRUE
  /\ pos = 0
  /\ printed = <<>>
  /\ workers = <<>>

pipeline_vars == <<files, chunk_size, fs, f_idx, pc, run_locals, printed, workers>>

Returning(ret) == call' = [call EXCEPT !.done = TRUE, !.ret = ret]

CallDedupe ==
  /\ pc = "pure" /\ call.fn = "dedupe" /\ ~call.done
  /\ Returning(dedupe_column_names_optimized(call.arg))
  /\ UNCHANGED <<pipeline_vars, column_transform_cache>>

CallTransform ==
  /\ pc = "pure" /\ call.fn = "transform" /\ ~call.done
  /\ Returning(transform_col_name(call.arg, column_transform_cache)[1])
  /\ column_transform_cache' = transform_col_name(call.arg, column_transform_cache)[2]
  /\ UNCHANGED pipeline_vars

CallFlatten ==
  /\ pc = "pure" /\ call.fn = "flatten" /\ ~call.done
  /\ Returning(flatten_dict_iterative(call.arg[1], call.arg[2]))
  /\ UNCHANGED <<pipeline_vars, column_transform_cache>>

\* flatten_dict of "import gzip.py"
CallFlattenDict ==
  /\ pc = "pure" /\ call.fn = "flatten_dict" /\ ~call.done
  /\ Returning(flatten_dict(call.arg[1], call.arg[2]))
  /\ UNCHANGED <<pipeline_vars, column_transform_cache>>

NextPure == CallDedupe \/ CallTransform \/ CallFlatten \/ CallFlattenDict

SpecPure == InitPure /\ [][NextPure]_vars

\* ------------------------------- runs one after another into the same folder

MaxPrior == 2
MaxRunLines == 1

\* what a file left by a run before the first one of the behaviour holds
OldText == <<[kind |-> "old", val |-> <<>>]>>

RunLinePool == {RecA, BadLine}

RECURSIVE RunFolders(_, _)
RunFolders(f, t) ==
  IF f = 0 THEN {<<>>}
  ELSE UNION {{<<x>> \o r : r \in RunFolders(f - 1, t - Len(x))} :
                x \in UNION {[1..k -> RunLinePool] : k \in 0..t}}

\* output folders earlier runs on X.ndjson left, files removed since or not
PriorFolders ==
  {[p \in S |-> OldText] : S \in SUBSET {Candidate(<<"X">>, n) : n \in 1..MaxPrior}}

InitRuns ==
  /\ \E f \in 1..MaxFiles : \E folder \in RunFolders(f, MaxRunLines) :
       files = [i \in 1..f |-> [name |-> FileName(i), lines |-> folder[i]]]
  /\ chunk_size \in 1..MaxChunk
  /\ fs \in PriorFolders
  /\ f_idx = 1
  /\ pc = "main"
  /\ output_file = NoPath
  /\ column_order = <<>>
  /\ batch_records = <<>>
  /\ processed_lines = 0
  /\ first_chunk = TRUE
  /\ pos = 0
  /\ printed = <<>>
  /\ column_transform_cache = <<>>
  /\ call = NoCall
  /\ workers = <<>>

\* the script is started again on the same input and output folders: a new
\* process, so the module-level cache and the locals start afresh
Rerun ==
  /\ pc = "exit"
  /\ Cardinality(DOMAIN fs) <= MaxPrior
  /\ pc' = "main"
  /\ f_idx' = 1
  /\ output_file' = NoPath
  /\ column_order' = <<>>
  /\ batch_records' = <<>>
  /\ processed_lines' = 0
  /\ first_chunk' = TRUE
  /\ pos' = 0
  /\ printed' = <<>>
  /\ column_transform_cache' = <<>>
  /\ UNCHANGED <<config, fs>>

NextRuns == Next \/ Rerun

SpecRuns == InitRuns /\ [][NextRuns]_vars

\* ------------------------ two files converted in parallel, one worker per file

MaxParLines == 2

\* the locals of ndjson_to_csv_flat_optimized at its entry
WorkerEntry ==
  [pc |-> "start", output_file |-> NoPath, column_order |-> <<>>, batch_records |-> <<>>,
   processed_lines |-> 0, first_chunk |-> TRUE, pos |-> 0]

\* two files of one base name (X.ndjson, X.ndjson.gz) or of two (X.ndjson,
\* Y.ndjson); worker w converts files[w]; the folder and, for threads, the
\* module-level cache are shared
InitPar ==
  /\ \E second \in {2, 3} : \E folder \in RunFolders(2, MaxParLines) :
       files = << [name |-> FileName(1), lines |-> folder[1]],
                  [name |-> FileName(second), lines |-> folder[2]] >>
  /\ chunk_size \in 1..MaxChunk
  /\ fs = <<>>
  /\ f_idx = 1
  /\ pc = "par"
  /\ output_file = NoPath
  /\ column_order = <<>>
  /\ batch_records = <<>>
  /\ processed_lines = 0
  /\ first_chunk = TRUE
  /\ pos = 0
  /\ printed = <<>>
  /\ column_transform_cache = <<>>
  /\ call = NoCall
  /\ workers = [w \in 1..2 |-> WorkerEntry]

par_frame == <<files, chunk_size, call, f_idx, pc, run_locals>>

WLines(w) == files[w].lines

WMsg(w, kind, n) == [file |-> w, kind |-> kind, n |-> n]

\* output_file = get_unique_filename(base_name, output_folder)
WorkerStart(w) ==
  /\ workers[w].pc = "start"
  /\ workers' = [workers EXCEPT ![w].output_file =
                                   get_unique_filename(files[w].name, DOMAIN fs),
                                ![w].pc = "schema"]
  /\ UNCHANGED <<par_frame, fs, printed, column_transform_cache>>

WorkerSchemaFrom(w, lines) ==
  LET got == collect_all_columns(lines, column_transform_cache)
  IN  /\ workers' = [workers EXCEPT ![w].column_order = got[1],
                                    ![w].batch_records = <<>>,
                                    ![w].processed_lines = 0,
                                    ![w].first_chunk = TRUE,
                                    ![w].pos = 0,
                                    ![w].pc = "write"]
      /\ column_transform_cache' = got[2]
      /\ UNCHANGED <<par_frame, fs, printed>>

WorkerCollectSchema(w) ==
  workers[w].pc = "schema" /\ WorkerSchemaFrom(w, WLines(w))

WorkerCollectSchemaSourceError(w) ==
  /\ workers[w].pc = "schema"
  /\ \E k \in 0..(Len(WLines(w)) - 1) : WorkerSchemaFrom(w, SubSeq(WLines(w), 1, k))

WorkerAtLine(w) == workers[w].pc = "write" /\ workers[w].pos < Len(WLines(w))

WorkerNextLine(w) == WLines(w)[workers[w].pos + 1]

WorkerSkipInvalid(w) ==
  /\ WorkerAtLine(w)
  /\ ~IsValidJson(WorkerNextLine(w))
  /\ workers' = [workers EXCEPT ![w].pos = @ + 1]
  /\ printed' = Append(printed, WMsg(w, "skip", workers[w].processed_lines + 1))
  /\ UNCHANGED <<par_frame, fs, column_transform_cache>>

WorkerAppended(w) ==
  Append(workers[w].batch_records, flatten_dict_iterative(WorkerNextLine(w), <<>>))

WorkerAppendRecord(w) ==
  /\ WorkerAtLine(w)
  /\ IsValidJson(WorkerNextLine(w))
  /\ Len(WorkerAppended(w)) < chunk_size
  /\ workers' = [workers EXCEPT ![w].batch_records = WorkerAppended(w),
                                ![w].processed_lines = @ + 1,
                                ![w].pos = @ + 1]
  /\ UNCHANGED <<par_frame, fs, printed, column_transform_cache>>

WorkerFlushed(w, batch) ==
  to_csv(fs, Reconcile(batch, workers[w].column_order), workers[w].output_file,
         IF workers[w].first_chunk THEN "w" ELSE "a", workers[w].first_chunk)

WorkerFlushBatch(w) ==
  /\ WorkerAtLine(w)
  /\ IsValidJson(WorkerNextLine(w))
  /\ Len(WorkerAppended(w)) >= chunk_size
  /\ fs' = WorkerFlushed(w, WorkerAppended(w))
  /\ workers' = [workers EXCEPT ![w].first_chunk = FALSE,
                                ![w].batch_records = <<>>,
                                ![w].processed_lines = @ + 1,
                                ![w].pos = @ + 1]
  /\ printed' = Append(printed, WMsg(w, "progress", workers[w].processed_lines + 1))
  /\ UNCHANGED <<par_frame, column_transform_cache>>

WorkerFlushBatchFails(w) ==
  /\ WorkerAtLine(w)
  /\ IsValidJson(WorkerNextLine(w))
  /\ Len(WorkerAppended(w)) >= chunk_size
  /\ workers' = [workers EXCEPT ![w].batch_records = WorkerAppended(w),
                                ![w].processed_lines = @ + 1,
                                ![w].pos = @ + 1]
  /\ printed' = Append(printed, WMsg(w, "line_error", workers[w].processed_lines + 2))
  /\ UNCHANGED <<par_frame, fs, column_transform_cache>>

\* the call returns: the worker is done
WorkerReturn(w) == workers' = [workers EXCEPT ![w].pc = "done"]

WorkerSourceError(w) ==
  /\ workers[w].pc = "write"
  /\ printed' = Append(printed, WMsg(w, "file_error", workers[w].processed_lines))
  /\ WorkerReturn(w)
  /\ UNCHANGED <<par_frame, fs, column_transform_cache>>

WorkerAtEnd(w) == workers[w].pc = "write" /\ workers[w].pos = Len(WLines(w))

WorkerFinalFlush(w) ==
  /\ WorkerAtEnd(w)
  /\ workers[w].batch_records # <<>>
  /\ fs' = WorkerFlushed(w, workers[w].batch_records)
  /\ printed' = Append(printed, WMsg(w, "finished", workers[w].processed_lines))
  /\ WorkerReturn(w)
  /\ UNCHANGED <<par_frame, column_transform_cache>>

WorkerFinalFlushFails(w) ==
  /\ WorkerAtEnd(w)
  /\ workers[w].batch_records # <<>>
  /\ printed' = Append(printed, WMsg(w, "file_error", workers[w].processed_lines))
  /\ WorkerReturn(w)
  /\ UNCHANGED <<par_frame, fs, column_transform_cache>>

WorkerFinishEmpty(w) ==
  /\ WorkerAtEnd(w)
  /\ workers[w].batch_records = <<>>
  /\ printed' = Append(printed, WMsg(w, "finished", workers[w].processed_lines))
  /\ WorkerReturn(w)
  /\ UNCHANGED <<par_frame, fs, column_transform_cache>>

\* any worker that has not returned takes its next step
NextPar ==
  \/ \E w \in DOMAIN workers : WorkerStart(w)
  \/ \E w \in DOMAIN workers : WorkerCollectSchema(w)
  \/ \E w \in DOMAIN workers : WorkerCollectSchemaSourceError(w)
  \/ \E w \in DOMAIN workers : WorkerSkipInvalid(w)
  \/ \E w \in DOMAIN workers : WorkerAppendRecord(w)
  \/ \E w \in DOMAIN workers : WorkerFlushBatch(w)
  \/ \E w \in DOMAIN workers : WorkerFlushBatchFails(w)
  \/ \E w \in DOMAIN workers : WorkerSourceError(w)
  \/ \E w \in DOMAIN workers : WorkerFinalFlush(w)
  \/ \E w \in DOMAIN workers : WorkerFinalFlushFails(w)
  \/ \E w \in DOMAIN workers : WorkerFinishEmpty(w)

SpecPar == InitPar /\ [][NextPar]_vars

\* ------------------------------------------------------------ properties

ValidRecords(lines) == SelectSeq(lines, IsValidJson)

FlatOf(line) == flatten_dict_iterative(line, <<>>)

DataRows(text) == SelectSeq(text, LAMBDA l : l.kind = "row")

HeaderRows(text) == SelectSeq(text, LAMBDA l : l.kind = "header")

\* ndjson_to_csv_flat_optimized has returned for a file
Returned == pc = "main" /\ f_idx > 1

\* the file the locals output_file, column_order, ... belong to
Cur == IF pc = "main" THEN f_idx - 1 ELSE f_idx

\* the locals describe a file whose write pass runs or has ended
HasRun == InWritePass \/ Returned

Written == output_file \in DOMAIN fs

LastPrinted == printed[Len(printed)]

Finished == Returned /\ LastPrinted.kind = "finished"

PrintedFor(i, kinds) == {j \in 1..Len(printed) : printed[j].file = i /\ printed[j].kind \in kinds}

\* an I/O failure has been reported for file i
IOFailed(i) == PrintedFor(i, {"line_error", "file_error"}) # {}

\* the raw paths a sampling pass over the first k lines observes
Observed(k) == SampleLoop(SubSeq(Lines(Cur), 1, k), {}, 0)

\* the sampling pass read k lines and produced column_order
SampledTo(k) ==
  column_order = dedupe_column_names_optimized(
                   [i \in 1..Len(Sorted(Observed(k))) |-> TransformMiss(Sorted(Observed(k))[i])])

\* C1: a row carries, for every path p of its record that sampling observed, the
\* record's value in the schema column p is renamed to, and not the absent marker
C1_RenamedValueCarried ==
  (HasRun /\ Written) =>
    \A r \in 1..Len(DataRows(fs[output_file])) :
      LET rec == FlatOf(ValidRecords(Lines(Cur))[r])
          row == DataRows(fs[output_file])[r].val
      IN  \A p \in DictKeys(rec) : \A c \in 1..Len(column_order) :
            ( /\ \E k \in 0..Len(Lines(Cur)) : SampledTo(k) /\ p \in Observed(k)
              /\ column_order[c] = TransformMiss(p)
              /\ DictGet(rec, p).kind = "str" )
            => (row[c] = DictGet(rec, p).val /\ row[c] # "")

\* C2: while no I/O failure has hit the file, every emitted row has exactly the
\* schema's columns in the schema's order: the record's value where the record
\* has the column, the absent marker where it has not, and nothing for a key
\* outside the schema; the header, when written, is the schema
C2_RowsMatchSchema ==
  (HasRun /\ Written /\ ~IOFailed(Cur)) =>
    /\ \A h \in 1..Len(HeaderRows(fs[output_file])) :
         HeaderRows(fs[output_file])[h].val = column_order
    /\ Len(DataRows(fs[output_file])) <= Len(ValidRecords(Lines(Cur)))
    /\ \A r \in 1..Len(DataRows(fs[output_file])) :
         LET rec == FlatOf(ValidRecords(Lines(Cur))[r])
             row == DataRows(fs[output_file])[r].val
         IN  /\ Len(row) = Len(column_order)
             /\ \A c \in 1..Len(column_order) :
                  row[c] = IF column_order[c] \in DictKeys(rec)
                           THEN CsvField(DictGet(rec, column_order[c]))
                           ELSE ""

\* C2 witness: a file written by a full batch and a final partial batch, with a
\* row that has an absent marker and a record one of whose keys is not a column
C2_Witness ==
  /\ Finished /\ Written /\ ~IOFailed(Cur) /\ chunk_size = 2
  /\ Len(DataRows(fs[output_file])) = 3
  /\ \E r \in 1..3 : \E c \in 1..Len(column_order) : DataRows(fs[output_file])[r].val[c] = ""
  /\ \E r \in 1..3 : \E p \in DictKeys(FlatOf(ValidRecords(Lines(Cur))[r])) :
       \A c \in 1..Len(column_order) : column_order[c] # p

\* the rows the first m records of the current file make, one record at a time
RECURSIVE ExpectedRows(_, _)
ExpectedRows(recs, m) ==
  IF m = 0 THEN <<>>
  ELSE ExpectedRows(recs, m - 1) \o RowLines(Reconcile(<<FlatOf(recs[m])>>, column_order))

\* C3: while no I/O failure has hit the file, the output is one header row,
\* written by the first flush, followed by the rows of the records flushed so far
\* in input order: no flush repeats the header or drops an earlier row, and a
\* finished run of n >= 1 records leaves the header and n rows
C3_OneHeaderThenRows ==
  ~IOFailed(Cur) =>
    /\ InWritePass => (Written <=> ~first_chunk)
    /\ (HasRun /\ Written) =>
         LET text == fs[output_file]
             flushed == IF InWritePass THEN processed_lines - Len(batch_records)
                        ELSE Len(DataRows(text))
         IN  /\ text[1] = [kind |-> "header", val |-> column_order]
             /\ \A n \in 2..Len(text) : text[n].kind = "row"
             /\ Tail(text) = ExpectedRows(ValidRecords(Lines(Cur)), flushed)
    /\ (Finished /\ ValidRecords(Lines(Cur)) # <<>>) =>
         /\ Written
         /\ Len(fs[output_file]) = 1 + Len(ValidRecords(Lines(Cur)))

\* C3 witness: three records and batch size 2: a full flush, then the partial one
C3_Witness ==
  /\ Finished /\ Written /\ ~IOFailed(Cur) /\ chunk_size = 2
  /\ Len(ValidRecords(Lines(Cur))) = 3
  /\ Len(fs[output_file]) = 4
  /\ Cardinality(PrintedFor(Cur, {"progress"})) = 1

\* C4: with zero parseable records the run finishes without error, the schema is
\* empty and the output file holds a header row with no columns and no data rows
C4_EmptyInputHeaderOnly ==
  (Finished /\ ValidRecords(Lines(Cur)) = <<>>) =>
    /\ column_order = <<>>
    /\ Written
    /\ fs[output_file] = <<[kind |-> "header", val |-> <<>>]>>

\* C5: the deduplicator's output has the length of its input and no name twice
C5_DedupeUnique ==
  (call.fn = "dedupe" /\ call.done) =>
    /\ Len(call.ret) = Len(call.arg)
    /\ \A i, j \in 1..Len(call.ret) : i # j => call.ret[i] # call.ret[j]

\* C6: the schema is the set of the transformed names of the sampled paths, in
\* ascending order: colliding paths give one column
C6_SchemaSortedDistinct ==
  InWritePass =>
    \E k \in 0..Len(Lines(Cur)) :
      column_order = Sorted({TransformMiss(p) : p \in Observed(k)})

K_name_1_family == K_name \o <<"_", "1", "_">> \o K_family
K_extension_1_url == K_extension \o <<"_", "1", "_">> \o K_url
K_ext1_url == <<"e", "x", "t", "1", "_", "u", "r", "l">>

\* C7: the record p1 flattens to id, name_1_family and extension_1_url, and
\* extension_1_url is renamed to ext1_url
C7_RoundTrip ==
  /\ (call.fn = "flatten" /\ call.done /\ call.arg = <<RecP1, <<>>>>) =>
       DictKeys(call.ret) = {K_id, K_name_1_family, K_extension_1_url}
  /\ (call.fn = "transform" /\ call.done /\ call.arg = K_extension_1_url) =>
       call.ret = K_ext1_url

\* C8: once an I/O failure has been reported for a file, nothing more is written
\* to the output folder for that file
C8_NoFlushAfterFailure ==
  [][(InWritePass /\ IOFailed(f_idx)) => fs' = fs]_vars

\* the numbers the end-of-run summary of file i reports
SummaryNumbers(i) == {printed[j].n : j \in PrintedFor(i, {"finished"})}

\* C9: an invalid line never ends the run; a finished run has one row per valid
\* line and reports how many lines it skipped
C9_SkippedCounted ==
  (Finished /\ ~IOFailed(Cur)) =>
    /\ Cardinality(PrintedFor(Cur, {"skip"}))
         = Len(Lines(Cur)) - Len(ValidRecords(Lines(Cur)))
    /\ (Written \/ ValidRecords(Lines(Cur)) = <<>>)
    /\ Written => Len(DataRows(fs[output_file])) = Len(ValidRecords(Lines(Cur)))
    /\ Len(ValidRecords(Lines(Cur))) < Len(Lines(Cur)) =>
         (Len(Lines(Cur)) - Len(ValidRecords(Lines(Cur)))) \in SummaryNumbers(Cur)

\* C10: the batch never holds more than chunk_size records, whatever lines and
\* flush failures come
C10_BatchBounded ==
  InWritePass => Len(batch_records) <= chunk_size

\* ------------------------------------------- properties of the pure functions

FlattenDone == call.fn = "flatten" /\ call.done

\* C11: a value that is no container flattens, under any parent path, to exactly
\* one entry: the parent path with the scalar itself
C11_ScalarOneEntry ==
  (FlattenDone /\ ~IsContainer(call.arg[1])) =>
    call.ret = << <<call.arg[2], call.arg[1]>> >>

\* path of a child: the parent path, the separator, the key or the number
ChildPath(path, part) == IF path # <<>> THEN path \o Sep \o part ELSE part

\* the (path, leaf) pairs of a container, list elements numbered 1..len in order
RECURSIVE LeafPairs(_, _)
LeafPairs(v, path) ==
  IF v.kind = "dict"
  THEN UNION {LeafPairs(v.val[i][2], ChildPath(path, v.val[i][1])) : i \in 1..Len(v.val)}
  ELSE IF v.kind = "list"
  THEN UNION {LeafPairs(v.val[i], ChildPath(path, Str(i))) : i \in 1..Len(v.val)}
  ELSE {<<path, v>>}

\* C12: the elements of every list, at any depth, are numbered 1..len in list
\* order and the number is joined to the parent path as a dict key would be; an
\* empty list contributes no entry. So the keys of the result are exactly the
\* leaf paths and every entry is a leaf under its path.
C12_ListsNumbered ==
  (FlattenDone /\ IsContainer(call.arg[1])) =>
    LET leaves == LeafPairs(call.arg[1], call.arg[2])
    IN  /\ DictKeys(call.ret) = {l[1] : l \in leaves}
        /\ \A i \in 1..Len(call.ret) : call.ret[i] \in leaves

\* nested lists, one of them empty, under a parent path
C12_Witness ==
  /\ FlattenDone /\ call.arg = <<RecDeep, <<"p">>>>
  /\ DictKeys(call.ret) =
       {<<"p", "_", "m", "_">> \o K_extension \o <<"_", "1", "_">> \o K_url,
        <<"p", "_", "m", "_">> \o K_extension \o <<"_", "2", "_">> \o K_url,
        <<"p", "_", "k", "_", "2", "_", "1">>,
        <<"p", "_", "k", "_", "2", "_", "2">>}

\* number of occurrences of names[i] among names[1..i]
Occurrence(names, i) == Cardinality({j \in 1..i : names[j] = names[i]})

\* C13: dedupe keeps the positions; the first occurrence of a name is unchanged
\* and its N-th occurrence (N >= 2) is name__N, counted from nothing on each call
C13_DedupePositional ==
  (call.fn = "dedupe" /\ call.done) =>
    /\ Len(call.ret) = Len(call.arg)
    /\ \A i \in 1..Len(call.arg) :
         LET N == Occurrence(call.arg, i)
         IN  call.ret[i] = IF N = 1 THEN call.arg[i]
                           ELSE call.arg[i] \o <<"_", "_">> \o Str(N)

C13_Witness ==
  /\ call.fn = "dedupe" /\ call.done
  /\ call.arg = << <<"x">>, <<"x">>, <<"x">> >>
  /\ call.ret = << <<"x">>, <<"x", "_", "_", "2">>, <<"x", "_", "_", "3">> >>

\* a mapping as Python compares dicts: the set of its (key, value) entries
Entries(d) == {d[i] : i \in 1..Len(d)}

\* C16: flatten_dict_iterative returns the mapping the recursive flatten_dict
\* returns, for every JSON value and parent path
C16_SameAsRecursive ==
  /\ FlattenDone =>
       Entries(call.ret) = Entries(flatten_dict(call.arg[1], call.arg[2]))
  /\ (call.fn = "flatten_dict" /\ call.done) =>
       Entries(call.ret) = Entries(flatten_dict_iterative(call.arg[1], call.arg[2]))

\* ----------------------------------------------- properties of the file names

BaseOf(i) == Splitext(Splitext(files[i].name))

\* path is base_NN.csv for the smallest NN >= 1 whose file the folder lacks
SmallestFree(path, base, folder) ==
  /\ path \notin DOMAIN folder
  /\ \E n \in 1..(Cardinality(DOMAIN folder) + 1) :
       /\ path = Candidate(base, n)
       /\ \A m \in 1..(n - 1) : Candidate(base, m) \in DOMAIN folder

\* C14: in runs one after another into the same folder, the path
\* get_unique_filename has chosen does not exist when chosen and is base_NN.csv
\* for the smallest free NN, and the first flush (mode 'w') creates its file:
\* no file that was in the folder is overwritten or changed
C14_NeverOverwrites ==
  /\ [](pc = "schema" => SmallestFree(output_file, BaseOf(f_idx), fs))
  /\ [][fs' # fs =>
          /\ first_chunk => output_file \notin DOMAIN fs
          /\ \A p \in DOMAIN fs : p # output_file => (p \in DOMAIN fs' /\ fs'[p] = fs[p])
          /\ output_file \in DOMAIN fs']_vars

\* an earlier run left X_01.csv; this run chose X_02.csv and wrote it
C14_Witness ==
  /\ Candidate(<<"X">>, 1) \in DOMAIN fs
  /\ fs[Candidate(<<"X">>, 1)] = OldText
  /\ output_file = Candidate(<<"X">>, 2)
  /\ output_file \in DOMAIN fs
  /\ fs[output_file] # OldText

\* ----------------------------------------- properties of parallel conversions

\* worker w has written its output file
WorkerWrote(w) ==
  \/ PrintedFor(w, {"progress"}) # {}
  \/ PrintedFor(w, {"finished"}) # {} /\ workers[w].batch_records # <<>>

\* the text a conversion of lines alone leaves, its schema sampled from k lines
AloneText(lines, k) ==
  LET order == collect_all_columns(SubSeq(lines, 1, k), <<>>)[1]
      recs == ValidRecords(lines)
      df == Reconcile([r \in 1..Len(recs) |-> FlatOf(recs[r])], order)
  IN  <<HeaderLine(df)>> \o RowLines(df)

\* C15: two files converted in parallel by workers that share nothing but the
\* folder: the two never write the same output path, X.ndjson and X.ndjson.gz
\* included, and when both are done every file converted without I/O failure
\* has the output it has when converted alone
C15_ParallelIndependent ==
  /\ (WorkerWrote(1) /\ WorkerWrote(2)) =>
       workers[1].output_file # workers[2].output_file
  /\ (\A w \in DOMAIN workers : workers[w].pc = "done") =>
       \A w \in DOMAIN workers :
         (WorkerWrote(w) /\ ~IOFailed(w)) =>
           \E k \in 0..Len(WLines(w)) :
             fs[workers[w].output_file] = AloneText(WLines(w), k)

====
